---- MODULE Spec2Model ----
(***************************************************************************)
(* Model of settle_balances.py: the two settlement finders                 *)
(* (find_settlement_or, find_settlement_nx), the shared seeded random      *)
(* generator behind edge_weight(), and the process-pool best-of-N search   *)
(* of find_best_settlement.                                                *)
(*                                                                         *)
(* Participants are numbered 1..Len(cashouts) (Python's 0..n-1 shifted by  *)
(* one); trials keep Python's numbering 0..num_trials-1.                   *)
(*                                                                         *)
(* Spec       every worker starts from random.seed(123); both finders      *)
(* SpecFinder one trial on one worker, participants in every order         *)
(* SpecFault  Solve() may report a status other than OPTIMAL in a trial    *)
(* SpecFork   every worker starts from a generator state of its own        *)
(***************************************************************************)
EXTENDS Integers, Sequences, FiniteSets, TLC

VARIABLES
    settlement_finder,  \* "or" | "nx": the finder handed to find_best_settlement
    cashouts,           \* the ledger: sequence of signed integer balances
    num_trials,         \* argument of find_best_settlement
    cpu_count,          \* multiprocessing.cpu_count(): pool size
    solver_fault,       \* trials in which Solve() reports a non-OPTIMAL status
                        \* for a solver-internal reason
    pc,                 \* position of the main process
    best_cost,          \* local of find_best_settlement
    best_settlement,    \* local of find_best_settlement ([is_none, map])
    taskqueue,          \* chunks of trials not yet taken by a worker
    worker_task,        \* per worker: the chunk it is running, or NoTask
    worker_next,        \* per worker: next trial of its chunk
    worker_buf,         \* per worker: results of its chunk computed so far
    rng_state,          \* per worker: state of its copy of the `random` generator
    outqueue,           \* results delivered to the aggregator, in arrival order
    received,           \* number of results the aggregator loop has consumed
    trial_log,          \* history: what each trial produced, the generator state
                        \* it started from, whether the solver had tied optima
    examined,           \* history: how often each trial's result was examined
    best_trial          \* history: index of the trial whose settlement is kept

vars == <<settlement_finder, cashouts, num_trials, cpu_count, solver_fault, pc,
          best_cost, best_settlement, taskqueue, worker_task, worker_next,
          worker_buf, rng_state, outqueue, received, trial_log, examined,
          best_trial>>

----------------------------------------------------------------------------
(* Bounds of the model *)

MaxLen == 4

MaxBal == 2

MaxTrials == 2

MaxCpu == 2

CostBound == 1000

MaxOsSeed == 2

(* random.seed(123) *)

Seed == 123

----------------------------------------------------------------------------
(* Generic helpers *)

RECURSIVE SumOver(_, _)
SumOver(f, S) ==
    IF S = {} THEN 0
    ELSE LET x == CHOOSE y \in S : TRUE IN f[x] + SumOver(f, S \ {x})

RECURSIVE SumTo(_, _)
SumTo(s, k) == IF k = 0 THEN 0 ELSE s[k] + SumTo(s, k - 1)

SumSeq(s) == SumTo(s, Len(s))

Min2(a, b) == IF a <= b THEN a ELSE b

Abs(x) == IF x < 0 THEN -x ELSE x

CeilDiv(a, b) == (a + b - 1) \div b

----------------------------------------------------------------------------
(* random.seed(123); edge_weight() *)

\* the Mersenne Twister behind `random` is modelled as a linear congruential
\* generator: a deterministic stream of states, one step per draw
RngStep(s) == (211 * s + 1663) % 7875

RECURSIVE RngAdvance(_, _)
RngAdvance(s, k) == IF k = 0 THEN s ELSE RngAdvance(RngStep(s), k - 1)

\* random.randint(-CostBound, CostBound) called in generator state s
edge_weight(s) == (RngStep(s) % (2 * CostBound + 1)) - CostBound

\* the weights of n successive calls of edge_weight() from generator state s
RECURSIVE Weights(_, _)
Weights(s, n) ==
    IF n = 0 THEN <<>>
    ELSE <<edge_weight(s)>> \o Weights(RngStep(s), n - 1)

----------------------------------------------------------------------------
(* Flow graph builders *)

\* the capacity rule without the negation of the debtor's balance
CapOrNoNegation(cashout1, cashout2) == Min2(cashout1, cashout2)

\* cap = min(cashout1, -cashout2)
CapOr(cashout1, cashout2) == Min2(cashout1, -cashout2)

\* find_settlement_or: the two nested loops that add the arcs creditor -> debtor
RECURSIVE ArcsOrFrom(_, _, _)
ArcsOrFrom(c, player_from, player_to) ==
    IF player_from > Len(c) THEN <<>>
    ELSE IF c[player_from] <= 0 \/ player_to > Len(c)
         THEN ArcsOrFrom(c, player_from + 1, 1)
    ELSE IF c[player_to] >= 0 THEN ArcsOrFrom(c, player_from, player_to + 1)
    ELSE <<[tail |-> player_from, head |-> player_to,
            cap |-> CapOr(c[player_from], c[player_to])]>>
         \o ArcsOrFrom(c, player_from, player_to + 1)

ArcsOr(c) == ArcsOrFrom(c, 1, 1)

\* cap = min(-cashout1, cashout2)
CapNx(cashout1, cashout2) == Min2(-cashout1, cashout2)

\* find_settlement_nx: the two nested loops that add the edges debtor -> creditor
RECURSIVE ArcsNxFrom(_, _, _)
ArcsNxFrom(c, player_from, player_to) ==
    IF player_from > Len(c) THEN <<>>
    ELSE IF c[player_from] >= 0 \/ player_to > Len(c)
         THEN ArcsNxFrom(c, player_from + 1, 1)
    ELSE IF c[player_to] <= 0 THEN ArcsNxFrom(c, player_from, player_to + 1)
    ELSE <<[tail |-> player_from, head |-> player_to,
            cap |-> CapNx(c[player_from], c[player_to])]>>
         \o ArcsNxFrom(c, player_from, player_to + 1)

ArcsNx(c) == ArcsNxFrom(c, 1, 1)

Arcs(finder, c) == IF finder = "or" THEN ArcsOr(c) ELSE ArcsNx(c)

----------------------------------------------------------------------------
(* Min-cost-flow solvers *)

\* what arcs 1..k move out of node i
RECURSIVE OutFlowTo(_, _, _, _)
OutFlowTo(arcs, f, i, k) ==
    IF k = 0 THEN 0
    ELSE (IF arcs[k].tail = i THEN f[k] ELSE 0) + OutFlowTo(arcs, f, i, k - 1)

\* what arcs 1..k move into node i
RECURSIVE InFlowTo(_, _, _, _)
InFlowTo(arcs, f, i, k) ==
    IF k = 0 THEN 0
    ELSE (IF arcs[k].head = i THEN f[k] ELSE 0) + InFlowTo(arcs, f, i, k - 1)

OutFlow(arcs, f, i) == OutFlowTo(arcs, f, i, Len(f))

InFlow(arcs, f, i) == InFlowTo(arcs, f, i, Len(f))

\* the flows on the first k arcs that respect every arc capacity, move no more
\* out of a tail than the magnitude of its balance and no more into a head
\* than the magnitude of its balance
RECURSIVE FlowsUpTo(_, _, _)
FlowsUpTo(arcs, c, k) ==
    IF k = 0 THEN {<<>>}
    ELSE UNION {
           {Append(f, x) :
              x \in 0..Min2(arcs[k].cap,
                      Min2(Abs(c[arcs[k].tail]) - OutFlow(arcs, f, arcs[k].tail),
                           Abs(c[arcs[k].head]) - InFlow(arcs, f, arcs[k].head)))}
           : f \in FlowsUpTo(arcs, c, k - 1)}

FlowsWithin(arcs, c) == FlowsUpTo(arcs, c, Len(arcs))

RECURSIVE FlowCostTo(_, _, _)
FlowCostTo(f, w, k) ==
    IF k = 0 THEN 0 ELSE f[k] * w[k] + FlowCostTo(f, w, k - 1)

FlowCost(f, w) == FlowCostTo(f, w, Len(f))

FlowValue(f) == SumSeq(f)

MinCost(F, w) ==
    LET costs == {FlowCost(f, w) : f \in F}
        least == CHOOSE m \in costs : \A n \in costs : m <= n
    IN {f \in F : FlowCost(f, w) = least}

\* SimpleMinCostFlow: flows meeting every node supply exactly
FeasibleOr(c) ==
    LET arcs == ArcsOr(c)
    IN {f \in FlowsWithin(arcs, c) :
           \A i \in 1..Len(c) :
               OutFlow(arcs, f, i) - InFlow(arcs, f, i) = c[i]}

\* min_cost_flow.Solve(): its status and the flows it may leave in the arcs
Solve(c, w, fault) ==
    LET F == FeasibleOr(c)
    IN IF fault THEN [status |-> "BAD_COST_RANGE", flows |-> {}]
       ELSE IF F = {} THEN [status |-> "INFEASIBLE", flows |-> {}]
       ELSE [status |-> "OPTIMAL", flows |-> MinCost(F, w)]

\* nx.max_flow_min_cost raises when source or sink is not a node of the graph
NxRaises(c) ==
    \/ ~(\E i \in 1..Len(c) : c[i] < 0)   \* no edge from source
    \/ ~(\E i \in 1..Len(c) : c[i] > 0)   \* no edge to sink

\* flows through the source -> debtor -> creditor -> sink network
\* (capacity -cashout on source -> debtor, cashout on creditor -> sink)
FlowsNx(c) == FlowsWithin(ArcsNx(c), c)

\* any flow of the network, maximum or not
MaxFlowsNxAnyFlow(c) == FlowsNx(c)

MaxFlowsNx(c) ==
    LET F == FlowsNx(c)
        values == {FlowValue(f) : f \in F}
        most == CHOOSE m \in values : \A n \in values : n <= m
    IN {f \in F : FlowValue(f) = most}

----------------------------------------------------------------------------
(* Settlement extraction *)

\* settlements[key].append(item) on a defaultdict(list)
AppendTo(settlements, key, item) ==
    [p \in (DOMAIN settlements) \cup {key} |->
        IF p \notin DOMAIN settlements THEN <<item>>
        ELSE IF p = key THEN Append(settlements[p], item)
        ELSE settlements[p]]

\* find_settlement_or: settlements[Tail(i)].append((Head(i), Flow(i)))
\* for the arcs 1..k with positive flow
RECURSIVE ExtractOrTo(_, _, _)
ExtractOrTo(arcs, f, k) ==
    IF k = 0 THEN <<>>
    ELSE IF f[k] <= 0 THEN ExtractOrTo(arcs, f, k - 1)
    ELSE AppendTo(ExtractOrTo(arcs, f, k - 1),
                  arcs[k].tail, <<arcs[k].head, f[k]>>)

ExtractOr(arcs, f) == ExtractOrTo(arcs, f, Len(arcs))

\* keyed by the tail of each edge, which in the networkx graph is the debtor
ExtractNxKeyedByPayer(arcs, f) == ExtractOrTo(arcs, f, Len(arcs))

\* find_settlement_nx: settlements[player_to].append((player_from, payment))
\* for the edges 1..k with positive flow
RECURSIVE ExtractNxTo(_, _, _)
ExtractNxTo(arcs, f, k) ==
    IF k = 0 THEN <<>>
    ELSE IF f[k] <= 0 THEN ExtractNxTo(arcs, f, k - 1)
    ELSE AppendTo(ExtractNxTo(arcs, f, k - 1),
                  arcs[k].head, <<arcs[k].tail, f[k]>>)

ExtractNx(arcs, f) == ExtractNxTo(arcs, f, Len(arcs))

\* what a call of a finder does: it raises, or returns one of `settlements`
Raised == [raised |-> TRUE, settlements |-> {}]

Returned(S) == [raised |-> FALSE, settlements |-> S]

\* find_settlement_or with the weights w drawn by edge_weight()
find_settlement_or(c, w, fault) ==
    LET min_cost_flow == Solve(c, w, fault)
    IN IF min_cost_flow.status # "OPTIMAL" THEN Raised
       ELSE Returned({ExtractOr(ArcsOr(c), f) : f \in min_cost_flow.flows})

\* find_settlement_nx with the weights w drawn by edge_weight()
find_settlement_nx(c, w) ==
    IF NxRaises(c) THEN Raised
    ELSE Returned({ExtractNx(ArcsNx(c), f) : f \in MinCost(MaxFlowsNx(c), w)})

\* functools.partial(settlement_finder, cashouts)
find_settlement(finder, c, w, fault) ==
    IF finder = "or" THEN find_settlement_or(c, w, fault)
    ELSE find_settlement_nx(c, w)

\* replaces the best whenever the score differs
BetterIfDifferent(cost, best) == cost # best

\* if cost < best_cost
Better(cost, best) == cost < best

\* cost = sum(len(al) for _, al in settlement.items())
Cost(m) == SumOver([p \in DOMAIN m |-> Len(m[p])], DOMAIN m)

----------------------------------------------------------------------------
(* find_best_settlement over a multiprocessing.Pool *)

NoTask == -1

None == [is_none |-> TRUE, map |-> <<>>]

Some(m) == [is_none |-> FALSE, map |-> m]

Pending == [status |-> "pending", settlement |-> <<>>, rng |-> 0, tied |-> FALSE]

Workers == 1..cpu_count

Trials == 0..(num_trials - 1)

\* chunk = math.ceil(num_trials / multiprocessing.cpu_count())
Chunk == CeilDiv(num_trials, cpu_count)

NumChunks == CeilDiv(num_trials, Chunk)

FirstOf(c) == c * Chunk

LastOf(c) == Min2((c + 1) * Chunk, num_trials) - 1

Balances == (-MaxBal)..MaxBal

Ledgers == UNION {[1..n -> Balances] : n \in 0..MaxLen}

\* ledgers listed from the largest balance down
SortedLedgers ==
    {c \in Ledgers : \A i \in 1..(Len(c) - 1) : c[i] >= c[i + 1]}

InitCommon ==
    /\ settlement_finder \in {"or", "nx"}
    /\ pc = "start"
    /\ best_cost = Len(cashouts) * Len(cashouts) + 1
    /\ best_settlement = None
    /\ taskqueue = <<>>
    /\ worker_task = [w \in 1..cpu_count |-> NoTask]
    /\ worker_next = [w \in 1..cpu_count |-> 0]
    /\ worker_buf = [w \in 1..cpu_count |-> <<>>]
    /\ outqueue = <<>>
    /\ received = 0
    /\ trial_log = [t \in 0..(num_trials - 1) |-> Pending]
    /\ examined = [t \in 0..(num_trials - 1) |-> 0]
    /\ best_trial = -1

\* every worker imports the module, which runs random.seed(123)
Seeded == rng_state = [w \in 1..cpu_count |-> Seed]

Init ==
    /\ cashouts \in SortedLedgers
    /\ num_trials \in 0..MaxTrials
    /\ cpu_count \in 1..MaxCpu
    /\ solver_fault = {}
    /\ Seeded
    /\ InitCommon

\* under the fork start method every worker reseeds its generator from the
\* operating system when it starts
InitFork ==
    /\ cashouts \in SortedLedgers
    /\ num_trials \in 0..MaxTrials
    /\ cpu_count \in 1..MaxCpu
    /\ solver_fault = {}
    /\ rng_state \in [1..cpu_count -> 0..MaxOsSeed]
    /\ InitCommon

\* one trial on one worker, for every ledger in every order of participants
InitFinder ==
    /\ cashouts \in Ledgers
    /\ num_trials = 1
    /\ cpu_count = 1
    /\ solver_fault = {}
    /\ Seeded
    /\ InitCommon

\* Solve() may end with a solver-internal failure status in some trials
InitFault ==
    /\ cashouts \in SortedLedgers
    /\ num_trials \in 0..MaxTrials
    /\ cpu_count \in 1..MaxCpu
    /\ solver_fault \in SUBSET (0..(num_trials - 1))
    /\ Seeded
    /\ InitCommon
    /\ settlement_finder = "or"

\* pool.imap_unordered(find_settlement, range(num_trials), chunksize=chunk)
Dispatch ==
    /\ pc = "start"
    /\ IF Chunk < 1
       THEN /\ pc' = "error"      \* ValueError: Chunksize must be 1+
            /\ UNCHANGED taskqueue
       ELSE /\ pc' = "iterating"
            /\ taskqueue' = [k \in 1..NumChunks |-> k - 1]
    /\ UNCHANGED <<settlement_finder, cashouts, num_trials, cpu_count,
                   solver_fault, best_cost, best_settlement, worker_task,
                   worker_next, worker_buf, rng_state, outqueue, received,
                   trial_log, examined, best_trial>>

\* an idle pool worker takes the next chunk of trials
Take(w) ==
    /\ pc = "iterating"
    /\ worker_task[w] = NoTask
    /\ taskqueue # <<>>
    \* idle workers whose generators are in the same state are interchangeable:
    \* the one with the lowest number stands for them all
    /\ \A v \in 1..(w - 1) :
          ~(worker_task[v] = NoTask /\ rng_state[v] = rng_state[w])
    /\ worker_task' = [worker_task EXCEPT ![w] = Head(taskqueue)]
    /\ worker_next' = [worker_next EXCEPT ![w] = FirstOf(Head(taskqueue))]
    /\ taskqueue' = Tail(taskqueue)
    /\ UNCHANGED <<settlement_finder, cashouts, num_trials, cpu_count,
                   solver_fault, pc, best_cost, best_settlement, worker_buf,
                   rng_state, outqueue, received, trial_log, examined,
                   best_trial>>

\* a worker runs settlement_finder(cashouts, t) for the next trial t of its chunk
RunTrial(w) ==
    /\ pc = "iterating"
    /\ worker_task[w] # NoTask
    /\ LET t == worker_next[w]
           arcs == Arcs(settlement_finder, cashouts)
           wts == Weights(rng_state[w], Len(arcs))
           out == find_settlement(settlement_finder, cashouts, wts,
                                  t \in solver_fault)
       IN /\ rng_state' = [rng_state EXCEPT
                              ![w] = RngAdvance(rng_state[w], Len(arcs))]
          /\ IF out.raised
             THEN /\ outqueue' = Append(outqueue,
                        [trial |-> t, ok |-> FALSE, settlement |-> <<>>])
                  /\ trial_log' = [trial_log EXCEPT ![t] =
                        [status |-> "failed", settlement |-> <<>>,
                         rng |-> rng_state[w], tied |-> FALSE]]
                  /\ worker_task' = [worker_task EXCEPT ![w] = NoTask]
                  /\ worker_buf' = [worker_buf EXCEPT ![w] = <<>>]
                  /\ worker_next' = [worker_next EXCEPT ![w] = 0]
             ELSE \E s \in out.settlements :
                  LET item == [trial |-> t, ok |-> TRUE, settlement |-> s]
                  IN /\ trial_log' = [trial_log EXCEPT ![t] =
                           [status |-> "ok", settlement |-> s,
                            rng |-> rng_state[w],
                            tied |-> Cardinality(out.settlements) > 1]]
                     /\ IF t = LastOf(worker_task[w])
                        THEN /\ outqueue' =
                                  outqueue \o Append(worker_buf[w], item)
                             /\ worker_task' =
                                  [worker_task EXCEPT ![w] = NoTask]
                             /\ worker_buf' = [worker_buf EXCEPT ![w] = <<>>]
                             /\ worker_next' =
                                  [worker_next EXCEPT ![w] = 0]
                        ELSE /\ worker_buf' = [worker_buf EXCEPT
                                  ![w] = Append(worker_buf[w], item)]
                             /\ worker_next' =
                                  [worker_next EXCEPT ![w] = t + 1]
                             /\ UNCHANGED <<outqueue, worker_task>>
    /\ UNCHANGED <<settlement_finder, cashouts, num_trials, cpu_count,
                   solver_fault, pc, best_cost, best_settlement, taskqueue,
                   received, examined, best_trial>>

\* one iteration of the aggregator loop; a failed trial re-raises here
Aggregate ==
    /\ pc = "iterating"
    /\ outqueue # <<>>
    /\ LET item == Head(outqueue)
           cost == Cost(item.settlement)
       IN IF ~item.ok
          THEN /\ pc' = "error"
               /\ UNCHANGED <<best_cost, best_settlement, best_trial,
                              received, examined>>
          ELSE /\ received' = received + 1
               /\ examined' =
                    [examined EXCEPT ![item.trial] = examined[item.trial] + 1]
               /\ IF Better(cost, best_cost)
                  THEN /\ best_cost' = cost
                       /\ best_settlement' = Some(item.settlement)
                       /\ best_trial' = item.trial
                  ELSE UNCHANGED <<best_cost, best_settlement, best_trial>>
               /\ UNCHANGED pc
    /\ outqueue' = Tail(outqueue)
    /\ UNCHANGED <<settlement_finder, cashouts, num_trials, cpu_count,
                   solver_fault, taskqueue, worker_task, worker_next,
                   worker_buf, rng_state, trial_log>>

\* returns as soon as one result was aggregated
ReturnAfterFirst ==
    /\ pc = "iterating"
    /\ received >= 1
    /\ pc' = "done"
    /\ UNCHANGED <<settlement_finder, cashouts, num_trials, cpu_count,
                   solver_fault, best_cost, best_settlement, taskqueue,
                   worker_task, worker_next, worker_buf, rng_state, outqueue,
                   received, trial_log, examined, best_trial>>

\* the iterator is exhausted: return best_settlement
Return ==
    /\ pc = "iterating"
    /\ received = num_trials
    /\ pc' = "done"
    /\ UNCHANGED <<settlement_finder, cashouts, num_trials, cpu_count,
                   solver_fault, best_cost, best_settlement, taskqueue,
                   worker_task, worker_next, worker_buf, rng_state, outqueue,
                   received, trial_log, examined, best_trial>>

Next ==
    \/ Dispatch
    \/ \E w \in Workers : Take(w)
    \/ \E w \in Workers : RunTrial(w)
    \/ Aggregate
    \/ Return

Spec == Init /\ [][Next]_vars

SpecFinder == InitFinder /\ [][Next]_vars

SpecFault == InitFault /\ [][Next]_vars

SpecFork == InitFork /\ [][Next]_vars

----------------------------------------------------------------------------
(* Vocabulary of the properties *)

Balanced(c) == SumSeq(c) = 0

\* what creditor i is paid in settlement m
Received(m, i) ==
    IF i \in DOMAIN m
    THEN SumTo([n \in 1..Len(m[i]) |-> m[i][n][2]], Len(m[i]))
    ELSE 0

\* what debtor j pays in settlement m, over all creditors
Paid(m, j) ==
    SumOver([p \in DOMAIN m |->
                SumTo([n \in 1..Len(m[p]) |->
                          IF m[p][n][1] = j THEN m[p][n][2] ELSE 0],
                      Len(m[p]))],
            DOMAIN m)

ZeroesBalances(c, m) ==
    \A i \in 1..Len(c) :
        /\ c[i] > 0 => Received(m, i) = c[i]
        /\ c[i] < 0 => Paid(m, i) = -c[i]

\* keys are creditors, payers are debtors
CreditorsFromDebtors(c, m) ==
    \A p \in DOMAIN m :
        /\ c[p] > 0
        /\ \A n \in 1..Len(m[p]) : c[m[p][n][1]] < 0

Score(t) == Cost(trial_log[t].settlement)

MinScoreTrials == {t \in Trials : \A u \in Trials : Score(t) <= Score(u)}

LowestMinScoreTrial ==
    CHOOSE t \in MinScoreTrials : \A u \in MinScoreTrials : t <= u

\* the weights trial t draws when one worker runs trials 0, 1, ... in order
SequentialWeights(t) ==
    LET n == Len(Arcs(settlement_finder, cashouts))
    IN Weights(RngAdvance(Seed, t * n), n)

SequentialScores(t) ==
    {Cost(s) : s \in find_settlement(settlement_finder, cashouts,
                                     SequentialWeights(t), FALSE).settlements}

\* the best scores the run on a single worker can end with
SequentialBestCosts ==
    {b \in UNION {SequentialScores(t) : t \in Trials} :
        \A t \in Trials : \E x \in SequentialScores(t) : b <= x}

Sentinel == Len(cashouts) * Len(cashouts) + 1

----------------------------------------------------------------------------
(* C1: on a balanced ledger with num_trials >= 1, the settlement that
   find_best_settlement returns pays every creditor exactly its balance and
   takes from every debtor exactly the magnitude of its balance. *)
C1_SettlementZeroesBalances ==
    (pc = "done" /\ num_trials >= 1 /\ Balanced(cashouts))
        => /\ ~best_settlement.is_none
           /\ ZeroesBalances(cashouts, best_settlement.map)

C1_Witness ==
    /\ pc = "done"
    /\ Balanced(cashouts)
    /\ settlement_finder = "nx"
    /\ num_trials >= 2
    /\ cpu_count >= 2
    /\ best_cost >= 2
    /\ \E i \in 1..Len(cashouts) : cashouts[i] = 0

(* C2: on a ledger whose balances do not sum to zero, with num_trials >= 1,
   find_best_settlement never returns, whichever finder is used. *)
C2_UnbalancedNeverReturns ==
    (~Balanced(cashouts) /\ num_trials >= 1) => pc # "done"

(* C3: the settlement returned is that of the lowest-numbered trial among the
   trials of minimum score, whatever the order in which the results arrive
   (stated for balanced ledgers and runs in which no solve had tied
   optima). *)
C3_TieBrokenByTrialIndex ==
    (/\ pc = "done"
     /\ num_trials >= 1
     /\ Balanced(cashouts)
     /\ \A t \in Trials : ~trial_log[t].tied)
        => best_settlement.map = trial_log[LowestMinScoreTrial].settlement

(* C4: with num_trials = 0, or with an empty ledger, find_best_settlement
   ends without an error and returns an empty settlement. *)
C4_EmptyInputGivesEmptySettlement ==
    (num_trials = 0 \/ Len(cashouts) = 0)
        => /\ pc # "error"
           /\ pc = "done" => /\ ~best_settlement.is_none
                             /\ DOMAIN best_settlement.map = {}

(* C5: when find_best_settlement returns with num_trials >= 1, every trial
   has run and was examined exactly once, and the score of the returned
   settlement is the minimum of the scores of all trials. *)
C5_ReturnsMinimumOverAllTrials ==
    (pc = "done" /\ num_trials >= 1)
        => /\ \A t \in Trials : trial_log[t].status = "ok" /\ examined[t] = 1
           /\ ~best_settlement.is_none
           /\ Cost(best_settlement.map) = best_cost
           /\ \A t \in Trials : best_cost <= Score(t)
           /\ \E t \in Trials : best_cost = Score(t)

C5_Witness ==
    /\ pc = "done"
    /\ cpu_count >= 2
    /\ num_trials >= 2
    /\ \E t \in Trials : Score(t) > best_cost
    /\ best_trial # 0

(* C6: in every settlement a finder produces, every key is a participant
   with a positive balance and every payer listed under it is a participant
   with a negative balance. *)
C6_CreditorsPaidByDebtors ==
    /\ \A t \in Trials :
          trial_log[t].status = "ok"
              => CreditorsFromDebtors(cashouts, trial_log[t].settlement)
    /\ CreditorsFromDebtors(cashouts, best_settlement.map)

C6_Witness ==
    /\ settlement_finder = "or"
    /\ \E i \in 1..Len(cashouts) : cashouts[i] = 0
    /\ \E i \in 1..Len(cashouts) : cashouts[i] < 0 /\ i < Len(cashouts)
                                    /\ cashouts[i + 1] > 0
    /\ trial_log[0].status = "ok"
    /\ Score(0) >= 2

(* C7: when the solver fails in one trial and another trial succeeds,
   find_best_settlement does not abort; it is fatal only when no trial
   succeeds. *)
C7_FatalOnlyWhenEveryTrialFails ==
    (pc = "error" /\ num_trials >= 1)
        => \A t \in Trials : trial_log[t].status # "ok"

(* C8: with the same ledger, num_trials and seed, the edge count of the
   returned settlement is the one the run on a single worker gives, whatever
   the number of workers and the assignment of trials to them (stated for
   balanced ledgers and runs in which no solve had tied optima). *)
C8_EdgeCountReproducible ==
    (/\ pc = "done"
     /\ num_trials >= 1
     /\ Balanced(cashouts)
     /\ \A t \in Trials : ~trial_log[t].tied)
        => best_cost \in SequentialBestCosts

(* C9: the best score never increases as results are aggregated, and after
   the first aggregated result it is never the initial sentinel again. *)
C9_BestScoreNeverIncreases ==
    /\ [][best_cost' <= best_cost]_vars
    /\ [](received >= 1 => best_cost < Sentinel)

C9_Witness ==
    /\ received >= 2
    /\ \E t \in Trials : examined[t] = 1 /\ Score(t) > best_cost
    /\ best_trial = 0

(* C10: on a balanced ledger the network of find_settlement_or admits an
   integer flow that respects every capacity and meets every supply, so the
   status of Solve() is OPTIMAL and no trial fails. *)
C10_BalancedLedgerIsFeasible ==
    Balanced(cashouts)
        => /\ FeasibleOr(cashouts) # {}
           /\ settlement_finder = "or"
                => /\ pc # "error"
                   /\ \A t \in Trials : trial_log[t].status # "failed"

C10_Witness ==
    /\ settlement_finder = "or"
    /\ Balanced(cashouts)
    /\ pc = "done"
    /\ \E p \in DOMAIN best_settlement.map :
          \E n \in 1..Len(best_settlement.map[p]) :
              best_settlement.map[p][n][2]
                  < CapOr(cashouts[p], cashouts[best_settlement.map[p][n][1]])

====
